---- MODULE Spec2Model ----
(***************************************************************************)
(* Model of src/index.js: an express service that materialises the         *)
(* paginated SWAPI "people" and "planets" collections, resolves planet     *)
(* resident links to names, caches both collections for 300 seconds and    *)
(* sorts /people on every request.                                         *)
(*                                                                         *)
(* Each handler is cut at its awaits: one action per segment that runs     *)
(* between two suspension points of the event loop.                        *)
(***************************************************************************)
EXTENDS Integers, Sequences, FiniteSets

\* ------------------------------------------------------------------ bounds
MaxPeople == 3          \* largest upstream people collection
MaxPlanets == 3         \* largest upstream planets collection
MaxPageSize == 2        \* largest page size (configured or served)
MaxTime == 301          \* the clock stops advancing past this

\* ------------------------------------------------------- program constants
TTL == 300              \* myCache.set(key, value, 300)

VALID_SORT_BY == {"name", "height", "mass"}
VALID_SORT_ORDER == {"asc", "desc"}

\* query values a client sends; "" is an absent parameter
SortByInputs == {"", "height", "mass", "color"}
SortOrderInputs == {"", "desc", "up"}

\* const sortBy = req.query.sortBy || 'name'
SortByOf(query) == IF query.sortBy = "" THEN "name" ELSE query.sortBy

\* const sortOrder = req.query.sortOrder || 'asc'
SortOrderOf(query) == IF query.sortOrder = "" THEN "asc" ELSE query.sortOrder

\* the clock advances by one of these steps (seconds): up to the last second
\* of an entry written at 0, or past it
ClockSteps == {TTL, TTL + 1}

\* --------------------------------------------------------------- upstream
\* Strings that are compared are sequences of collation weights.
PersonAt(i) ==
    [ id     |-> i,
      name   |-> IF i % 2 = 1 THEN <<2>> ELSE <<1, 2>>,
      height |-> IF i % 3 = 1 THEN <<9>> ELSE <<8, 0>>,
      mass   |-> <<7>> ]

ResidentLinks(i) ==
    CASE i = 1     -> <<"A", "B">>
      [] i % 2 = 0 -> <<>>
      [] OTHER     -> <<"A">>

PlanetAt(i) == [ id |-> i, residents |-> ResidentLinks(i) ]

\* display name the upstream serves for a resident link
UpstreamName(url) == IF url = "A" THEN "Leia Organa" ELSE "Bail Organa"

\* a JavaScript undefined inside an array
UndefinedItem == [ undef |-> TRUE ]

\* a value that is either an array or undefined
Arr(items) == [ def |-> TRUE, items |-> items ]
Undefined == [ def |-> FALSE, items |-> <<>> ]

RecordAt(endpoint, i) == IF endpoint = "people" THEN PersonAt(i) ELSE PlanetAt(i)

Min(a, b) == IF a < b THEN a ELSE b

\* Math.ceil(a / b) for a >= 0, b > 0
Ceil(a, b) == (a + b - 1) \div b

\* number of pages the upstream serves for n records, srv records a page
ServedPages(n, srv) == IF n = 0 THEN 1 ELSE Ceil(n, srv)

\* results of page p as the upstream serves it
ServedPage(endpoint, n, srv, p) ==
    [ k \in 1..(Min(n, p * srv) - Min(n, (p - 1) * srv)) |->
        RecordAt(endpoint, (p - 1) * srv + k) ]

\* the whole upstream collection, in upstream order
Upstream(endpoint, n) == [ k \in 1..n |-> RecordAt(endpoint, k) ]

\* ---------------------------------------------------------- fetchAllPages
\* mutant: Math.floor in place of Math.ceil
RemainingPagesFloor(count, size) == (count \div size) - 1

\* mutant: one request per page of the collection, the first one again
RemainingPagesAll(count, size) == Ceil(count, size)

\* Math.ceil(count / process.env.SWAPI_PAGE_SIZE) - 1
RemainingPages(count, size) == Ceil(count, size) - 1

RECURSIVE Flat(_)
\* data.map(page => page.results).flat(): a page whose body has no results
\* contributes one undefined element
Flat(pages) ==
    IF pages = <<>> THEN <<>>
    ELSE (IF Head(pages).def THEN Head(pages).items ELSE <<UndefinedItem>>)
         \o Flat(Tail(pages))

\* ------------------------------------------------------------------ sort
RECURSIVE LocaleCompare(_, _)
\* a.localeCompare(b) on strings: -1, 0 or 1
LocaleCompare(a, b) ==
    IF a = <<>> /\ b = <<>> THEN 0
    ELSE IF a = <<>> THEN -1
    ELSE IF b = <<>> THEN 1
    ELSE IF Head(a) < Head(b) THEN -1
    ELSE IF Head(a) > Head(b) THEN 1
    ELSE LocaleCompare(Tail(a), Tail(b))

\* mutant: the direction is ignored
ComparatorAscending(a, b, sortBy, sortOrder) ==
    LocaleCompare(a[sortBy], b[sortBy])

\* the comparator handed to people.sort
Comparator(a, b, sortBy, sortOrder) ==
    IF sortOrder = "asc" THEN LocaleCompare(a[sortBy], b[sortBy])
    ELSE LocaleCompare(b[sortBy], a[sortBy])

RECURSIVE InsertBeforeEqual(_, _, _, _)
\* an insertion that also passes the elements comparing equal: not stable
InsertBeforeEqual(x, sorted, sortBy, sortOrder) ==
    IF sorted = <<>> THEN <<x>>
    ELSE IF Comparator(Head(sorted), x, sortBy, sortOrder) >= 0
         THEN <<x>> \o sorted
         ELSE <<Head(sorted)>> \o InsertBeforeEqual(x, Tail(sorted), sortBy, sortOrder)

RECURSIVE InsertStable(_, _, _, _)
\* x goes behind every element that does not compare greater than it
InsertStable(x, sorted, sortBy, sortOrder) ==
    IF sorted = <<>> THEN <<x>>
    ELSE IF Comparator(Head(sorted), x, sortBy, sortOrder) > 0
         THEN <<x>> \o sorted
         ELSE <<Head(sorted)>> \o InsertStable(x, Tail(sorted), sortBy, sortOrder)

RECURSIVE SortDefined(_, _, _, _)
SortDefined(items, acc, sortBy, sortOrder) ==
    IF items = <<>> THEN acc
    ELSE SortDefined(Tail(items),
                     InsertStable(Head(items), acc, sortBy, sortOrder),
                     sortBy, sortOrder)

\* Array.prototype.sort: stable on the defined elements, undefined ones are
\* moved to the end without the comparator being called
ArraySort(items, sortBy, sortOrder) ==
    LET defined == SelectSeq(items, LAMBDA x : x # UndefinedItem)
        holes   == SelectSeq(items, LAMBDA x : x = UndefinedItem)
    IN  SortDefined(defined, <<>>, sortBy, sortOrder) \o holes

\* ----------------------------------------------------------------- cache
NoEntry == [ present |-> FALSE, v |-> Undefined, t |-> 0 ]

\* node-cache _check: an entry is dead once its expiry lies before now
Expired(entry, now) == entry.t < now

\* myCache.get(key): the stored value, undefined when absent or expired
CacheGet(c, key, now) ==
    IF c[key].present /\ ~Expired(c[key], now) THEN c[key].v ELSE Undefined

\* the cache after myCache.get(key): an expired entry is deleted on read
CacheAfterGet(c, key, now) ==
    IF c[key].present /\ Expired(c[key], now)
    THEN [c EXCEPT ![key] = NoEntry] ELSE c

\* myCache.set(key, value, ttl)
CacheSet(c, key, value, ttl, now) ==
    [c EXCEPT ![key] = [ present |-> TRUE, v |-> value, t |-> now + ttl ]]

\* mutant: the cache keeps and hands out the array itself
CacheAfterSortShared(c, key, sorted) ==
    [c EXCEPT ![key] = [ @ EXCEPT !.v = Arr(sorted) ]]

\* the cache after the handler sorted, in place, the array it got from get or
\* gave to set: new NodeCache() clones values on get and on set, the entry
\* is another array
CacheAfterSort(c, key, sorted) == c

\* ----------------------------------------------------------------- state
VARIABLES
    nPeople,      \* records in the upstream people collection
    nPlanets,     \* records in the upstream planets collection
    srvPageSize,  \* page size the upstream serves
    pageSize,     \* process.env.SWAPI_PAGE_SIZE
    clock,        \* Date.now(), in seconds
    myCache,      \* the NodeCache instance: PEOPLE and PLANETS entries
    req,          \* per slot: the request being handled and its response
    traced,       \* the order in which answers land is kept in req[s].landed
    numeric       \* the upstream serves height and mass as JSON numbers

vars == <<nPeople, nPlanets, srvPageSize, pageSize, clock, myCache, req, traced,
          numeric>>
config == <<nPeople, nPlanets, srvPageSize, pageSize, traced, numeric>>

\* the requests the process handles at a time
Slots == DOMAIN req

\* the fields of a person the upstream may serve as numbers
NumberFields == {"height", "mass"}

RECURSIVE NumberOf(_)
\* the number a string of decimal digits spells
NumberOf(digits) ==
    IF digits = <<>> THEN 0
    ELSE 10 * NumberOf(SubSeq(digits, 1, Len(digits) - 1)) + digits[Len(digits)]

\* a person as the upstream serves it
AsServed(person) ==
    IF numeric
    THEN [ person EXCEPT !.height = [ num |-> NumberOf(@) ],
                         !.mass   = [ num |-> NumberOf(@) ] ]
    ELSE person

\* page p of a collection as response.json() yields it
Served(endpoint, p) ==
    LET n == IF endpoint = "people" THEN nPeople ELSE nPlanets
        page == ServedPage(endpoint, n, srvPageSize, p)
    IN  IF endpoint = "people"
        THEN [ k \in 1..Len(page) |-> AsServed(page[k]) ]
        ELSE page

\* the comparator throws: a[sortBy].localeCompare is not a function when the
\* field is a number; sort calls it once two elements are defined
SortThrows(people, sortBy) ==
    /\ numeric
    /\ sortBy \in NumberFields
    /\ Len(SelectSeq(people, LAMBDA x : x # UndefinedItem)) >= 2

UpstreamCount(endpoint) == IF endpoint = "people" THEN nPeople ELSE nPlanets
CacheKey(endpoint) == IF endpoint = "people" THEN "PEOPLE" ELSE "PLANETS"

IdleReq ==
    [ pc        |-> "idle",      \* idle, page1, pages, residents, done
      endpoint  |-> "none",
      query     |-> [ sortBy |-> "", sortOrder |-> "" ],   \* req.query
      hadEntry  |-> FALSE,       \* an unexpired entry existed on arrival
      cached    |-> Undefined,   \* what myCache.get returned
      pageCalls |-> 0,           \* page requests issued
      lookCalls |-> 0,           \* resident lookups issued
      count     |-> 0,           \* initialData.count
      page1     |-> Undefined,   \* initialData.results
      pageOut   |-> <<>>,        \* outcome of pages 2.., "pending" until it lands
      page1Out  |-> "none",
      fetched   |-> Undefined,   \* what fetchAllPages returned
      threw     |-> "none",      \* where the handler threw
      stored    |-> FALSE,       \* this request called myCache.set
      lookOut   |-> <<>>,        \* outcome of each resident lookup
      landed    |-> <<>>,        \* indices of the awaited calls, as they landed
      status    |-> 0,
      body      |-> [ count |-> 0, results |-> <<>> ] ]

Init ==
    /\ nPeople \in 0..MaxPeople
    /\ nPlanets \in 0..MaxPlanets
    \* at most one of the two collections holds more than one record
    /\ (nPeople <= 1 \/ nPlanets <= 1)
    /\ pageSize \in 1..MaxPageSize
    \* the upstream serves pages of the configured size, or of one record
    /\ srvPageSize \in {pageSize, 1}
    /\ clock = 0
    /\ myCache = [ k \in {"PEOPLE", "PLANETS"} |-> NoEntry ]
    /\ req = [ s \in {1} |-> IdleReq ]
    /\ traced = FALSE
    /\ numeric = FALSE

\* ------------------------------------- fetchResidentsWithErrorHandling
RECURSIVE AllResidentUrlsFrom(_, _)
AllResidentUrlsFrom(planets, planetIndex) ==
    IF planetIndex > Len(planets) THEN <<>>
    ELSE [ j \in 1..Len(planets[planetIndex].residents) |->
             [ planetIndex |-> planetIndex,
               url |-> planets[planetIndex].residents[j] ] ]
         \o AllResidentUrlsFrom(planets, planetIndex + 1)

\* mutant: one entry per distinct url, the first occurrence
AllResidentUrlsDistinct(planets) ==
    LET all == AllResidentUrlsFrom(planets, 1)
        first == { i \in 1..Len(all) : \A k \in 1..(i - 1) : all[k].url # all[i].url }
        Rank(i) == Cardinality({ k \in first : k <= i })
    IN  [ n \in 1..Cardinality(first) |->
            all[CHOOSE i \in first : Rank(i) = n] ]

\* planets.flatMap((planet, planetIndex) => planet.residents.map(...))
AllResidentUrls(planets) == AllResidentUrlsFrom(planets, 1)

\* mutant: the values in the order in which the promises settled
PromiseAllAsLanded(values, landed) ==
    [ k \in 1..Len(landed) |-> values[landed[k]] ]

\* await Promise.all(promises): the values in the order of the promises,
\* whatever the order in which they settled
PromiseAll(values, landed) == values

\* the completion order after call i landed
Landed(r, i) == IF traced THEN Append(r.landed, i) ELSE r.landed

PageOutcomes == {"ok", "transport", "statusJson", "badBody"}
LookupOutcomes == {"ok", "status", "transport"}

\* mutant: response.ok is not looked at
ResidentResultUnchecked(entry, outcome) ==
    [ planetIndex |-> entry.planetIndex,
      name |-> IF outcome = "transport" THEN "Unknown" ELSE UpstreamName(entry.url) ]

\* what one residentPromise resolves to: the try/catch around fetch(url)
ResidentResult(entry, outcome) ==
    [ planetIndex |-> entry.planetIndex,
      name |-> IF outcome = "ok" THEN UpstreamName(entry.url) ELSE "Unknown" ]

\* residentResults, in the order of allResidentUrls (Promise.all)
ResidentResults(urls, outcomes) ==
    [ i \in 1..Len(urls) |-> ResidentResult(urls[i], outcomes[i]) ]

\* mutant: unresolved residents are left out
ResidentsByPlanetKnown(results, index) ==
    LET mine == SelectSeq(results,
                    LAMBDA e : e.planetIndex = index /\ e.name # "Unknown")
    IN  [ j \in 1..Len(mine) |-> mine[j].name ]

\* residentsByPlanet[index] || []
ResidentsByPlanet(results, index) ==
    LET mine == SelectSeq(results, LAMBDA e : e.planetIndex = index)
    IN  [ j \in 1..Len(mine) |-> mine[j].name ]

\* mutant: the planet is not spread into the new record
UpdatePlanetsBare(planets, results) ==
    [ i \in 1..Len(planets) |->
        [ residents |-> ResidentsByPlanet(results, i) ] ]

\* planets.map((planet, index) => ({...planet, residents: ...}))
UpdatePlanets(planets, results) ==
    [ i \in 1..Len(planets) |->
        [ planets[i] EXCEPT !.residents = ResidentsByPlanet(results, i) ] ]

\* ------------------------------------------------------------- responses
Respond(r, status, results) ==
    [ r EXCEPT !.pc = "done", !.status = status,
               !.body = [ count |-> Len(results), results |-> results ] ]

\* mutant: the catch block logs and sends nothing
Fail500Silent(r, where) == [ r EXCEPT !.threw = where, !.pc = "hung" ]

\* the catch block of a handler: res.status(500)
Fail500(r, where) == [ Respond(r, 500, <<>>) EXCEPT !.threw = where ]

\* people = people.sort(...); res.json({count, results})
SortAndRespond(r, people) ==
    IF SortThrows(people, SortByOf(r.query))
    THEN Fail500(r, "sort")
    ELSE Respond(r, 200,
                 ArraySort(people, SortByOf(r.query), SortOrderOf(r.query)))

\* /people after fetchAllPages returned: lines 118-133
PeopleAfterFetch(s, r, people) ==
    /\ myCache' =
          IF people.def /\ ~SortThrows(people.items, SortByOf(r.query))
          THEN CacheAfterSort(CacheSet(myCache, "PEOPLE", people, TTL, clock),
                   "PEOPLE",
                   ArraySort(people.items, SortByOf(r.query), SortOrderOf(r.query)))
          ELSE CacheSet(myCache, "PEOPLE", people, TTL, clock)
    /\ req' = [ req EXCEPT ![s] =
                  IF people.def
                  THEN SortAndRespond([ r EXCEPT !.stored = TRUE ], people.items)
                  ELSE Fail500([ r EXCEPT !.stored = TRUE ], "sort") ]

\* /planets once every lookup has landed: lines 79-92 and 148-155
PlanetsAfterResolve(s, r, planets, outcomes) ==
    LET resolved == UpdatePlanets(planets,
                       PromiseAll(ResidentResults(AllResidentUrls(planets), outcomes),
                                  r.landed))
    IN  /\ myCache' = CacheSet(myCache, "PLANETS", Arr(resolved), TTL, clock)
        /\ req' = [ req EXCEPT ![s] =
                      Respond([ r EXCEPT !.stored = TRUE ], 200, resolved) ]

\* /planets after fetchAllPages returned: lines 147 and 59-77
PlanetsAfterFetch(s, r, planets) ==
    IF ~planets.def
    THEN /\ req' = [ req EXCEPT ![s] = Fail500(r, "flatMap") ]
         /\ UNCHANGED myCache
    ELSE IF \E i \in 1..Len(planets.items) : planets.items[i] = UndefinedItem
    THEN /\ req' = [ req EXCEPT ![s] = Fail500(r, "residents") ]
         /\ UNCHANGED myCache
    ELSE LET urls == AllResidentUrls(planets.items)
         IN  IF urls = <<>>
             THEN PlanetsAfterResolve(s, [ r EXCEPT !.landed = <<>> ],
                                      planets.items, <<>>)
             ELSE /\ req' = [ req EXCEPT ![s] =
                       [ r EXCEPT !.pc = "residents",
                                  !.landed = <<>>,
                                  !.lookCalls = Len(urls),
                                  !.lookOut = [ i \in 1..Len(urls) |-> "pending" ] ] ]
                  /\ UNCHANGED myCache

\* the handler resumes with the value fetchAllPages returned
AfterFetch(s, r, fetched) ==
    LET r1 == [ r EXCEPT !.fetched = fetched ]
    IN  IF r.endpoint = "people"
        THEN PeopleAfterFetch(s, r1, fetched)
        ELSE PlanetsAfterFetch(s, r1, fetched)

\* --------------------------------------------------------------- actions
\* mutant: sortOrder is not validated
InvalidSortByOnly(sortBy, sortOrder) == sortBy \notin VALID_SORT_BY

\* the two validations of /people: lines 106-112
InvalidParams(sortBy, sortOrder) ==
    sortBy \notin VALID_SORT_BY \/ sortOrder \notin VALID_SORT_ORDER

Free(s) == req[s].pc \in {"idle", "done"}

\* GET /people up to its first await: lines 100-117
PeopleRequest(s, sb, so) ==
    /\ Free(s)
    /\ LET r0 == [ IdleReq EXCEPT !.endpoint = "people",
                       !.query = [ sortBy |-> sb, sortOrder |-> so ] ]
       IN  IF InvalidParams(SortByOf(r0.query), SortOrderOf(r0.query))
           THEN /\ req' = [ req EXCEPT ![s] = Respond(r0, 400, <<>>) ]
                /\ UNCHANGED myCache
           ELSE LET got == CacheGet(myCache, "PEOPLE", clock)
                    people == IF got.def THEN got.items ELSE <<>>
                    r1 == [ r0 EXCEPT !.cached = got,
                              !.hadEntry = (myCache["PEOPLE"].present
                                  /\ ~Expired(myCache["PEOPLE"], clock)) ]
                IN  /\ myCache' =
                          IF Len(people) = 0 \/ SortThrows(people, SortByOf(r1.query))
                          THEN CacheAfterGet(myCache, "PEOPLE", clock)
                          ELSE CacheAfterSort(
                                   CacheAfterGet(myCache, "PEOPLE", clock),
                                   "PEOPLE",
                                   ArraySort(people, SortByOf(r1.query),
                                             SortOrderOf(r1.query)))
                    /\ req' = [ req EXCEPT ![s] =
                          IF Len(people) = 0
                          THEN [ r1 EXCEPT !.pc = "page1", !.pageCalls = 1 ]
                          ELSE SortAndRespond(r1, people) ]
    /\ UNCHANGED <<config, clock>>

\* GET /planets up to its first await: lines 141-146
PlanetsRequest(s) ==
    /\ Free(s)
    /\ LET got == CacheGet(myCache, "PLANETS", clock)
           planets == IF got.def THEN got.items ELSE <<>>
           r1 == [ IdleReq EXCEPT !.endpoint = "planets", !.cached = got,
                     !.hadEntry = (myCache["PLANETS"].present
                         /\ ~Expired(myCache["PLANETS"], clock)) ]
       IN  /\ myCache' = CacheAfterGet(myCache, "PLANETS", clock)
           /\ req' = [ req EXCEPT ![s] =
                 IF Len(planets) = 0
                 THEN [ r1 EXCEPT !.pc = "page1", !.pageCalls = 1 ]
                 ELSE Respond(r1, 200, planets) ]
    /\ UNCHANGED <<config, clock>>

\* fetchAllPages resumes with the answer to page 1: lines 37-47, 53
Page1Done(s, outcome) ==
    /\ req[s].pc = "page1"
    /\ LET r == [ req[s] EXCEPT !.page1Out = outcome ]
           n == UpstreamCount(r.endpoint)
       IN  CASE outcome \in {"transport", "badBody"} ->
                  /\ req' = [ req EXCEPT ![s] = Fail500(r, "page1") ]
                  /\ UNCHANGED myCache
             [] outcome = "statusJson" ->
                  \* count and results are undefined, remainingPages is NaN
                  AfterFetch(s, r, Undefined)
             [] OTHER ->
                  LET results == Served(r.endpoint, 1)
                      remainingPages == RemainingPages(n, pageSize)
                      r1 == [ r EXCEPT !.count = n, !.page1 = Arr(results) ]
                  IN  IF remainingPages > 0
                      THEN /\ req' = [ req EXCEPT ![s] =
                                [ r1 EXCEPT !.pc = "pages",
                                    !.pageCalls = 1 + remainingPages,
                                    !.pageOut = [ i \in 1..remainingPages |-> "pending" ] ] ]
                           /\ UNCHANGED myCache
                      ELSE AfterFetch(s, r1, Arr(results))
    /\ UNCHANGED <<config, clock>>

\* body of page i + 1 once response.json() has parsed it
PageBody(endpoint, n, i, outcome) ==
    IF outcome = "ok" THEN Arr(Served(endpoint, i + 1))
    ELSE Undefined

\* the answer to the request for page i + 1 lands: lines 48-53
PageDone(s, i, outcome) ==
    /\ req[s].pc = "pages"
    /\ i \in 1..Len(req[s].pageOut)
    /\ req[s].pageOut[i] = "pending"
    \* the upstream has no such page: it cannot answer with one
    /\ outcome = "ok" => i + 1 <= ServedPages(UpstreamCount(req[s].endpoint), srvPageSize)
    /\ LET r == [ req[s] EXCEPT !.pageOut[i] = outcome,
                                 !.landed = Landed(req[s], i) ]
           n == UpstreamCount(r.endpoint)
       IN  IF outcome = "transport"
           THEN \* Promise.all(requests) rejects at once
                /\ req' = [ req EXCEPT ![s] = Fail500(r, "pages") ]
                /\ UNCHANGED myCache
           ELSE IF \E k \in 1..Len(r.pageOut) : r.pageOut[k] = "pending"
           THEN /\ req' = [ req EXCEPT ![s] = r ]
                /\ UNCHANGED myCache
           ELSE IF \E k \in 1..Len(r.pageOut) : r.pageOut[k] = "badBody"
           THEN \* a response.json() rejects
                /\ req' = [ req EXCEPT ![s] = Fail500(r, "pages") ]
                /\ UNCHANGED myCache
           ELSE LET data == PromiseAll([ k \in 1..Len(r.pageOut) |->
                                  PageBody(r.endpoint, n, k, r.pageOut[k]) ],
                               r.landed)
                IN  AfterFetch(s, r, Arr(r.page1.items \o Flat(data)))
    /\ UNCHANGED <<config, clock>>

\* one resident lookup lands: lines 64-79
LookupDone(s, i, outcome) ==
    /\ req[s].pc = "residents"
    /\ i \in 1..Len(req[s].lookOut)
    /\ req[s].lookOut[i] = "pending"
    /\ LET r == [ req[s] EXCEPT !.lookOut[i] = outcome,
                                 !.landed = Landed(req[s], i) ]
       IN  IF \E k \in 1..Len(r.lookOut) : r.lookOut[k] = "pending"
           THEN /\ req' = [ req EXCEPT ![s] = r ]
                /\ UNCHANGED myCache
           ELSE PlanetsAfterResolve(s, r, r.fetched.items, r.lookOut)
    /\ UNCHANGED <<config, clock>>

\* time passes
Tick(d) ==
    /\ clock + d <= MaxTime
    /\ clock' = clock + d
    /\ UNCHANGED <<config, myCache, req>>

Next ==
    \/ \E s \in Slots, sb \in SortByInputs, so \in SortOrderInputs :
          PeopleRequest(s, sb, so)
    \/ \E s \in Slots : PlanetsRequest(s)
    \/ \E s \in Slots, o \in PageOutcomes : Page1Done(s, o)
    \/ \E s \in Slots, i \in 1..MaxPeople + MaxPlanets, o \in PageOutcomes :
          PageDone(s, i, o)
    \/ \E s \in Slots, i \in 1..2 * MaxPlanets, o \in LookupOutcomes :
          LookupDone(s, i, o)
    \/ \E d \in ClockSteps : Tick(d)

Spec == Init /\ [][Next]_vars

\* The same service with one page and one resident per upstream call, and
\* the order in which the concurrent calls of a request land kept on record.
InitTraced ==
    /\ nPeople = MaxPeople
    /\ nPlanets \in {1, MaxPlanets}
    /\ pageSize = 1
    /\ srvPageSize = 1
    /\ clock = 0
    /\ myCache = [ k \in {"PEOPLE", "PLANETS"} |-> NoEntry ]
    /\ req = [ s \in {1} |-> IdleReq ]
    /\ traced = TRUE
    /\ numeric = FALSE

SpecTraced == InitTraced /\ [][Next]_vars

\* The same service handling two requests at a time.
InitConcurrent ==
    /\ nPeople \in {0, 2}
    /\ nPlanets \in {0, 1}
    /\ pageSize = 1
    /\ srvPageSize = 1
    /\ clock = 0
    /\ myCache = [ k \in {"PEOPLE", "PLANETS"} |-> NoEntry ]
    /\ req = [ s \in {1, 2} |-> IdleReq ]
    /\ traced = FALSE
    /\ numeric = FALSE

\* the steps of Next, with /people asked for in its default order only
NextConcurrent ==
    \/ \E s \in Slots : PeopleRequest(s, "", "")
    \/ \E s \in Slots : PlanetsRequest(s)
    \/ \E s \in Slots, o \in PageOutcomes : Page1Done(s, o)
    \/ \E s \in Slots, i \in 1..MaxPeople + MaxPlanets, o \in PageOutcomes :
          PageDone(s, i, o)
    \/ \E s \in Slots, i \in 1..2 * MaxPlanets, o \in LookupOutcomes :
          LookupDone(s, i, o)
    \/ \E d \in ClockSteps : Tick(d)

\* an upstream call of the request in slot s is answered; the failed page
\* request stands first because its step is the quickest to find enabled
UpstreamAnswer(s) ==
    \/ \E i \in 1..MaxPeople + MaxPlanets : PageDone(s, i, "transport")
    \/ \E o \in PageOutcomes : Page1Done(s, o)
    \/ \E i \in 1..MaxPeople + MaxPlanets, o \in PageOutcomes : PageDone(s, i, o)
    \/ \E i \in 1..2 * MaxPlanets, o \in LookupOutcomes : LookupDone(s, i, o)

\* every upstream call of the request in slot s is answered in the end, one
\* way or another
UpstreamAnswers(s) == WF_vars(UpstreamAnswer(s))

\* The service with one record a page, in front of an upstream that answers
\* every call.
InitFair ==
    /\ nPeople \in {0, 3}
    /\ nPlanets \in {0, 3}
    /\ (nPeople = 0 \/ nPlanets = 0)
    /\ pageSize = 1
    /\ srvPageSize = 1
    /\ clock = 0
    /\ myCache = [ k \in {"PEOPLE", "PLANETS"} |-> NoEntry ]
    /\ req = [ s \in {1} |-> IdleReq ]
    /\ traced = FALSE
    /\ numeric = FALSE

SpecFair == InitFair /\ [][Next]_vars /\ UpstreamAnswers(1)

\* The same service in front of an upstream that serves height and mass as
\* numbers.
InitNumeric ==
    /\ nPeople \in 0..MaxPeople
    /\ nPlanets \in 0..1
    /\ pageSize \in 1..MaxPageSize
    /\ srvPageSize = pageSize
    /\ clock = 0
    /\ myCache = [ k \in {"PEOPLE", "PLANETS"} |-> NoEntry ]
    /\ req = [ s \in {1} |-> IdleReq ]
    /\ traced = FALSE
    /\ numeric = TRUE

SpecNumeric == InitNumeric /\ [][Next]_vars

SpecConcurrent == InitConcurrent /\ [][NextConcurrent]_vars

\* ================================================================ claims
Done(s) == req[s].pc = "done"

\* every page the request asked for was answered with that page
AllPagesOk(r) ==
    /\ r.page1Out = "ok"
    /\ \A k \in 1..Len(r.pageOut) : r.pageOut[k] = "ok"

\* fetchAllPages has returned to the handler of r
Returned(r) ==
    /\ r.pc \in {"residents", "done"}
    /\ r.page1Out \in {"ok", "statusJson"}
    /\ r.threw # "pages"

RECURSIVE LinkCount(_)
\* number of resident links in a planet collection, repeats counted
LinkCount(planets) ==
    IF planets = <<>> THEN 0
    ELSE Len(Head(planets).residents) + LinkCount(Tail(planets))

\* the set of resident links in a planet collection
DistinctLinks(planets) ==
    UNION { { planets[p].residents[j] : j \in 1..Len(planets[p].residents) } :
            p \in 1..Len(planets) }

\* index of the lookup issued for position j of planet p
LookupOf(planets, p, j) == LinkCount(SubSeq(planets, 1, p - 1)) + j

\* what the spec says a link resolves to under a lookup outcome
Resolution(url, outcome) ==
    IF outcome = "ok" THEN UpstreamName(url) ELSE "Unknown"

\* a /planets request that fetched a collection of planet records and answered
ResolvedPlanets(s) ==
    /\ Done(s)
    /\ req[s].endpoint = "planets"
    /\ Returned(req[s])
    /\ req[s].fetched.def
    /\ \A p \in 1..Len(req[s].fetched.items) : req[s].fetched.items[p] # UndefinedItem

\* C1: when every page is served and the configured page size is the one the
\* upstream serves, fetchAllPages returns the upstream collection, page after
\* page in upstream order, nothing repeated and nothing left out; /people then
\* answers 200 with count = number of results = the upstream count.
C1_FetchAllComplete ==
    \A s \in Slots :
        LET r == req[s]
            n == UpstreamCount(r.endpoint)
        IN  (Returned(r) /\ AllPagesOk(r) /\ pageSize = srvPageSize) =>
              /\ r.fetched = Arr(Upstream(r.endpoint, n))
              /\ r.count = n
              /\ \A i, j \in 1..Len(r.fetched.items) :
                    i # j => r.fetched.items[i] # r.fetched.items[j]
              /\ (Done(s) /\ r.endpoint = "people") =>
                    /\ r.status = 200
                    /\ r.body.count = n
                    /\ Len(r.body.results) = n

\* a /people request answered a three-record collection fetched over two pages
C1_Witness ==
    /\ Done(1) /\ req[1].endpoint = "people" /\ req[1].status = 200
    /\ pageSize = srvPageSize
    /\ req[1].pageOut = <<"ok">>
    /\ req[1].body.count = 3

C3_LookupFailuresIsolated ==
    \A s \in Slots :
        LET r == req[s]
        IN  /\ r.pc = "residents" => r.threw = "none" /\ r.status = 0
            /\ ResolvedPlanets(s) =>
                 /\ r.status = 200
                 /\ r.threw = "none"
                 /\ \A p \in 1..Len(r.fetched.items) :
                      \A j \in 1..Len(r.fetched.items[p].residents) :
                        LET o == r.lookOut[LookupOf(r.fetched.items, p, j)]
                            url == r.fetched.items[p].residents[j]
                        IN  /\ o \in {"status", "transport"} =>
                                r.body.results[p].residents[j] = "Unknown"
                            /\ o = "ok" =>
                                r.body.results[p].residents[j] = UpstreamName(url)

\* residents [A, B]: A resolved, B's lookup answered with a non-success status
C3_Witness ==
    /\ ResolvedPlanets(1)
    /\ Len(req[1].fetched.items) >= 1
    /\ req[1].fetched.items[1].residents = <<"A", "B">>
    /\ req[1].lookOut[1] = "ok"
    /\ req[1].lookOut[2] = "status"
    /\ req[1].body.results[1].residents = <<"Leia Organa", "Unknown">>
    /\ req[1].status = 200

\* C4: a resolved residents list is as long as the link list it replaces and
\* its i-th entry stands for the i-th link; an empty list stays empty.
C4_ResidentsLengthAndOrder ==
    \A s \in Slots :
        ResolvedPlanets(s) =>
            LET planets == req[s].fetched.items
                out == req[s].body.results
            IN  /\ Len(out) = Len(planets)
                /\ \A p \in 1..Len(planets) :
                     /\ Len(out[p].residents) = Len(planets[p].residents)
                     /\ planets[p].residents = <<>> => out[p].residents = <<>>
                     /\ \A j \in 1..Len(planets[p].residents) :
                          out[p].residents[j] \in
                            { UpstreamName(planets[p].residents[j]), "Unknown" }

\* three planets, the second without residents, one lookup of the first failed
C4_Witness ==
    /\ ResolvedPlanets(1)
    /\ Len(req[1].body.results) = 3
    /\ req[1].body.results[1].residents = <<"Unknown", "Bail Organa">>
    /\ req[1].body.results[2].residents = <<>>
    /\ req[1].body.results[3].residents = <<"Leia Organa">>

\* the two sequences hold the same elements, each as often
SameElements(a, b) ==
    /\ Len(a) = Len(b)
    /\ \A i \in 1..Len(a) :
         Cardinality({ k \in 1..Len(a) : a[k] = a[i] })
           = Cardinality({ k \in 1..Len(b) : b[k] = a[i] })

\* C5 as stated: a request that finds an unexpired collection in the cache,
\* whatever its size, issues no upstream call and answers with that collection.
C5_HitServedFromCache ==
    \A s \in Slots :
        LET r == req[s]
        IN  (r.pc # "idle" /\ r.hadEntry /\ r.cached.def) =>
              /\ r.pageCalls = 0
              /\ r.lookCalls = 0
              /\ Done(s) =>
                   /\ r.status = 200
                   /\ IF r.endpoint = "planets"
                      THEN r.body.results = r.cached.items
                      ELSE SameElements(r.body.results, r.cached.items)

\* a request that got past validation
Accepted(s) == req[s].pc # "idle" /\ req[s].endpoint # "none" /\ req[s].status # 400

\* C6 as stated: an accepted request fetches if and only if the cache holds no
\* unexpired entry for its key, and what it fetched replaces the entry, with an
\* expiry one TTL after the store.
C6_FetchIffNoEntry ==
    \A s \in Slots :
        LET r == req[s]
            entry == myCache[CacheKey(r.endpoint)]
        IN  Accepted(s) =>
              /\ (r.pageCalls > 0) <=> ~r.hadEntry
              /\ r.pageCalls > 0 => r.page1Out # "none" \/ r.pc = "page1"
              /\ (Done(s) /\ r.stored) =>
                   /\ entry.present
                   /\ entry.v = (IF r.endpoint = "people" THEN r.fetched
                                 ELSE Arr(r.body.results))
                   /\ entry.t <= clock + TTL
                   /\ entry.t >= TTL

\* what the interface rejects: a value given and not in the allow-list
Rejected(query) ==
    \/ query.sortBy # "" /\ query.sortBy \notin {"name", "height", "mass"}
    \/ query.sortOrder # "" /\ query.sortOrder \notin {"asc", "desc"}

\* C7: a /people request with a sortBy or sortOrder outside the allow-lists is
\* answered 400 at once, issues no upstream call and leaves the cache as it
\* was, whatever the cache holds.
C7_InvalidRejectedBeforeIO ==
    [][ \A s \in Slots :
          (req'[s] # req[s] /\ req'[s].endpoint = "people"
              /\ Rejected(req'[s].query)) =>
              /\ req'[s].pc = "done"
              /\ req'[s].status = 400
              /\ req'[s].pageCalls = 0
              /\ req'[s].lookCalls = 0
              /\ ~req'[s].stored
              /\ myCache' = myCache ]_vars

\* a request was rejected while an expired PEOPLE entry sat in the cache
C7_Witness ==
    /\ Done(1) /\ req[1].endpoint = "people" /\ req[1].status = 400
    /\ myCache["PEOPLE"].present
    /\ Expired(myCache["PEOPLE"], clock)

\* C8 as stated: once a page after the first has failed, the request is
\* answered 500, with no collection, and nothing is stored.
C8_PageFailureFailsCall ==
    \A s \in Slots :
        LET r == req[s]
        IN  (Done(s) /\ \E k \in 1..Len(r.pageOut) :
                           r.pageOut[k] \in {"transport", "statusJson", "badBody"}) =>
              /\ r.status = 500
              /\ r.body.results = <<>>
              /\ ~r.stored

\* C9 as stated: once the first page has failed, fetchAllPages has thrown, no
\* other page was requested and the request is answered 500.
C9_FirstPageFailureFails ==
    \A s \in Slots :
        LET r == req[s]
        IN  r.page1Out \in {"transport", "statusJson", "badBody"} =>
              /\ r.threw = "page1"
              /\ r.pageCalls = 1
              /\ r.pageOut = <<>>
              /\ Done(s)
              /\ r.status = 500

\* the records of a response are in the order of the field, in the direction
Ordered(results, sortBy, sortOrder) ==
    \A i, j \in 1..Len(results) :
        (i < j /\ results[i] # UndefinedItem /\ results[j] # UndefinedItem) =>
            IF sortOrder = "asc"
            THEN LocaleCompare(results[i][sortBy], results[j][sortBy]) <= 0
            ELSE LocaleCompare(results[i][sortBy], results[j][sortBy]) >= 0

\* C10: every 200 answer of /people is ordered by the field and direction of
\* its own request, name and asc when they are absent, on a cache hit as on
\* a miss.
C10_OrderedByRequest ==
    \A s \in Slots :
        LET q == req[s].query
        IN  (Done(s) /\ req[s].endpoint = "people" /\ req[s].status = 200) =>
               Ordered(req[s].body.results,
                       IF q.sortBy = "" THEN "name" ELSE q.sortBy,
                       IF q.sortOrder = "" THEN "asc" ELSE q.sortOrder)

\* a cache hit answered by height, descending, in another order than cached
C10_Witness ==
    /\ Done(1) /\ req[1].endpoint = "people" /\ req[1].status = 200
    /\ req[1].hadEntry
    /\ req[1].query = [ sortBy |-> "height", sortOrder |-> "desc" ]
    /\ Len(req[1].body.results) = 3
    /\ req[1].body.results # req[1].cached.items

\* the collection a /people request sorted: the cached one on a hit, the one
\* it fetched otherwise
SortedFrom(r) == IF r.pageCalls = 0 THEN r.cached.items ELSE r.fetched.items

\* the records of a collection whose field compares equal to that of x
SameKey(items, x, sortBy) ==
    SelectSeq(items, LAMBDA y : /\ y # UndefinedItem
                                /\ LocaleCompare(y[sortBy], x[sortBy]) = 0)

\* C11: the sort is stable in both directions: in every 200 answer of
\* /people the records whose sort field compares equal stand in the order
\* they had in the collection that was sorted, the fetched one on a miss and
\* the cached one on a hit.
C11_SortStable ==
    \A s \in Slots :
        LET r  == req[s]
            sb == SortByOf(r.query)
        IN  (Done(s) /\ r.endpoint = "people" /\ r.status = 200) =>
               \A k \in 1..Len(r.body.results) :
                   r.body.results[k] # UndefinedItem =>
                       SameKey(r.body.results, r.body.results[k], sb)
                         = SameKey(SortedFrom(r), r.body.results[k], sb)

\* a cache hit sorted descending on a field that is equal in all three
\* records, and a miss sorted descending by name with two names equal
C11_Witness ==
    /\ Done(1) /\ req[1].endpoint = "people" /\ req[1].status = 200
    /\ req[1].query.sortOrder = "desc"
    /\ Len(req[1].body.results) = 3
    /\ \/ /\ req[1].hadEntry /\ req[1].pageCalls = 0
          /\ req[1].query.sortBy = "mass"
          /\ req[1].body.results = req[1].cached.items
       \/ /\ req[1].pageCalls > 0
          /\ req[1].query.sortBy = ""
          /\ Len(SameKey(req[1].body.results, req[1].body.results[1], "name")) = 2

\* the collection fetchAllPages joins from the answers, page by page
JoinedPages(r) ==
    r.page1.items \o
    Flat([ k \in 1..Len(r.pageOut) |->
             PageBody(r.endpoint, UpstreamCount(r.endpoint), k, r.pageOut[k]) ])

\* the calls a request awaited together did not land in the order of issue
LandedOutOfOrder(r) ==
    \E k \in 1..(Len(r.landed) - 1) : r.landed[k] > r.landed[k + 1]

\* C12: what a request produces depends on the answers only, not on the
\* order in which they land: the fetched collection is page 1 followed by
\* pages 2.. in page order, and position j of planet p holds the result of
\* the lookup issued for that position, in whatever order the page requests
\* and the lookups completed.
C12_CompletionOrderIrrelevant ==
    \A s \in Slots :
        LET r == req[s]
        IN  /\ (Returned(r) /\ r.page1Out = "ok") =>
                   r.fetched = Arr(JoinedPages(r))
            /\ (ResolvedPlanets(s) /\ r.status = 200 /\ r.pageCalls > 0) =>
                   /\ Len(r.body.results) = Len(r.fetched.items)
                   /\ \A p \in 1..Len(r.fetched.items) :
                         LET links == r.fetched.items[p].residents
                             names == r.body.results[p].residents
                         IN  /\ Len(names) = Len(links)
                             /\ \A j \in 1..Len(links) :
                                   names[j] = Resolution(links[j],
                                       r.lookOut[LookupOf(r.fetched.items, p, j)])

\* the last page landed before the second and the collection is complete
C12_WitnessPages ==
    /\ Done(1) /\ req[1].endpoint = "people" /\ req[1].status = 200
    /\ AllPagesOk(req[1])
    /\ Len(req[1].landed) >= 2
    /\ LandedOutOfOrder(req[1])
    /\ req[1].fetched = Arr(Upstream("people", nPeople))

\* the lookup of the second resident of a planet landed before the first
\* one, with different results, and the residents are in link order
C12_Witness ==
    /\ Done(1) /\ req[1].endpoint = "planets" /\ req[1].status = 200
    /\ Len(req[1].landed) >= 2
    /\ req[1].landed[1] = 2
    /\ req[1].lookOut[1] = "ok" /\ req[1].lookOut[2] = "ok"
    /\ Len(req[1].body.results) >= 1
    /\ req[1].body.results[1].residents = <<"Leia Organa", "Bail Organa">>

\* what a request that populated the cache put under its key
Populated(r) ==
    IF r.endpoint = "people" THEN r.fetched ELSE Arr(r.body.results)

\* C13: a cache entry changes only by being replaced as a whole when a
\* request populates it (or by being dropped once expired); sorting does not
\* touch it: a /people hit leaves the PEOPLE entry alone and a miss leaves
\* in it the collection as it was fetched, not as it was sorted.
C13_CacheUntouchedBySort ==
    [][ \A key \in {"PEOPLE", "PLANETS"} :
          myCache'[key] # myCache[key] =>
             \/ /\ myCache[key].present
                /\ Expired(myCache[key], clock)
                /\ myCache'[key] = NoEntry
             \/ \E s \in Slots :
                   /\ ~req[s].stored
                   /\ req'[s].stored
                   /\ CacheKey(req'[s].endpoint) = key
                   /\ myCache'[key] = [ present |-> TRUE,
                                        v |-> Populated(req'[s]),
                                        t |-> clock + TTL ] ]_vars

\* a hit was answered in another order than the cached one, and the entry
\* is still the upstream collection in fetched order
C13_Witness ==
    /\ Done(1) /\ req[1].endpoint = "people" /\ req[1].status = 200
    /\ req[1].hadEntry /\ req[1].pageCalls = 0
    /\ Len(req[1].body.results) = 3
    /\ req[1].body.results # req[1].cached.items
    /\ myCache["PEOPLE"].present
    /\ myCache["PEOPLE"].v = Arr(Upstream("people", nPeople))

\* a request that fetched for itself, every page served, and has answered
FetchedForItself(s) ==
    /\ Done(s) /\ req[s].pageCalls >= 1 /\ AllPagesOk(req[s])

\* the requests that found no entry each fetch, store and answer in full
EachFetchesAndStores(s) ==
    LET r == req[s]
        n == UpstreamCount(r.endpoint)
    IN  /\ (Accepted(s) /\ ~r.hadEntry) => r.pageCalls >= 1
        /\ FetchedForItself(s) =>
              /\ r.stored
              /\ r.status = 200
              /\ r.body.count = n
              /\ Len(r.body.results) = n
              /\ r.endpoint = "planets" => r.lookCalls = LinkCount(r.fetched.items)

\* the part of C14 the code keeps: requests that find no entry are not
\* coalesced, and a request that finds a non-empty collection stored is
\* served from it
C14_NotCoalesced ==
    \A s \in Slots :
        /\ EachFetchesAndStores(s)
        /\ (Accepted(s) /\ req[s].hadEntry /\ req[s].cached.def
               /\ req[s].cached.items # <<>>) =>
              /\ req[s].pageCalls = 0
              /\ req[s].status = 200
              /\ SameElements(req[s].body.results, req[s].cached.items)

\* two requests for the same collection in flight at once, neither served
\* from the cache, both answered in full and both stored
C14_BothFetched ==
    /\ Cardinality(Slots) = 2
    /\ FetchedForItself(1) /\ FetchedForItself(2)
    /\ req[1].endpoint = req[2].endpoint
    /\ ~req[1].hadEntry /\ ~req[2].hadEntry
    /\ req[1].stored /\ req[2].stored
    /\ req[1].status = 200 /\ req[2].status = 200
    /\ Len(req[1].body.results) = 2

\* C14: requests for a collection that find no entry are not coalesced:
\* each runs its own fetch (and resolve), stores its result and answers
\* with the complete collection; a request that arrives once an entry is
\* stored is served from the cache, without a fetch.
C14_ServedFromCacheOnceStored ==
    \A s \in Slots :
        /\ EachFetchesAndStores(s)
        /\ (Accepted(s) /\ req[s].hadEntry) =>
              /\ req[s].pageCalls = 0
              /\ req[s].status = 200

\* what a resolved residents entry can be: a name the upstream gives, or Unknown
ResolvedNames == { UpstreamName(url) : url \in {"A", "B"} } \cup {"Unknown"}

\* the entry under key is absent or the whole upstream collection, planets
\* with every residents entry resolved
FullyMaterialized(key) ==
    LET e == myCache[key]
        endpoint == IF key = "PEOPLE" THEN "people" ELSE "planets"
        n == UpstreamCount(endpoint)
    IN  e.present =>
          /\ e.v.def
          /\ Len(e.v.items) = n
          /\ \A i \in 1..Len(e.v.items) :
                /\ e.v.items[i] # UndefinedItem
                /\ e.v.items[i].id = i
                /\ key = "PLANETS" =>
                      /\ Len(e.v.items[i].residents) = Len(ResidentLinks(i))
                      /\ \A j \in 1..Len(e.v.items[i].residents) :
                            e.v.items[i].residents[j] \in ResolvedNames

\* the part of C15 the code keeps: the PLANETS entry
C15_PlanetsEntryMaterialized ==
    pageSize = srvPageSize => FullyMaterialized("PLANETS")

\* C15: in every reachable state each cache entry is absent or a complete
\* collection: PEOPLE holds the records of all pages, PLANETS the planets of
\* all pages with every residents entry a name or Unknown.
C15_CacheFullyMaterialized ==
    pageSize = srvPageSize =>
        /\ FullyMaterialized("PEOPLE")
        /\ FullyMaterialized("PLANETS")

\* C16: fetchAllPages asks for page 1 alone; once page 1 is answered with
\* the total count it asks, in one go, for the ceil(count / page size) - 1
\* pages 2.., for none when that number is not positive (count 0 included):
\* a call makes max(1, ceil(count / page size)) page requests in all.
C16_PageRequestsIssued ==
    \A s \in Slots :
        LET r     == req[s]
            pages == Ceil(r.count, pageSize)
        IN  /\ r.pc = "page1" => (r.pageCalls = 1 /\ r.pageOut = <<>>)
            /\ r.page1Out = "ok" =>
                  /\ r.count = UpstreamCount(r.endpoint)
                  /\ r.pageCalls = IF pages > 1 THEN pages ELSE 1
                  /\ Len(r.pageOut) = r.pageCalls - 1
            /\ r.pc = "pages" =>
                  /\ r.page1Out = "ok"
                  /\ Len(r.pageOut) = pages - 1

\* three records, page size 1: page 1 answered, pages 2 and 3 asked for and
\* none of them awaited yet
C16_Witness ==
    /\ req[1].pc = "pages"
    /\ req[1].count = 3 /\ pageSize = 1
    /\ req[1].pageCalls = 3
    /\ req[1].pageOut = <<"pending", "pending">>

\* an empty collection: one page request in all
C16_WitnessEmpty ==
    /\ Done(1) /\ req[1].page1Out = "ok" /\ req[1].count = 0
    /\ req[1].pageCalls = 1 /\ req[1].status = 200

\* C17: resolution changes nothing but the residents field: as many planet
\* records come out as went in, in the same order, every other field of a
\* record is the one that went in, and the records that went in still hold
\* their links.
C17_OnlyResidentsChange ==
    \A s \in Slots :
        (ResolvedPlanets(s) /\ req[s].status = 200 /\ req[s].pageCalls > 0) =>
            LET planets == req[s].fetched.items
                out == req[s].body.results
            IN  /\ Len(out) = Len(planets)
                /\ \A p \in 1..Len(planets) :
                      /\ DOMAIN out[p] = DOMAIN planets[p]
                      /\ \A f \in DOMAIN planets[p] \ {"residents"} :
                            out[p][f] = planets[p][f]
                /\ req[s].fetched = Arr(JoinedPages(req[s]))
                /\ \A p \in 1..Len(planets) :
                      planets[p].residents = ResidentLinks(planets[p].id)

\* three planets resolved: the answer holds names, the fetched records
\* still hold the links
C17_Witness ==
    /\ ResolvedPlanets(1) /\ req[1].status = 200 /\ req[1].lookCalls = 3
    /\ Len(req[1].body.results) = 3
    /\ req[1].body.results[1].residents = <<"Leia Organa", "Bail Organa">>
    /\ req[1].fetched.items[1].residents = <<"A", "B">>
    /\ \A p \in 1..3 : req[1].body.results[p].id = p

RECURSIVE Digits(_)
\* the decimal digits of a number: String(n)
Digits(n) == IF n < 10 THEN <<n>> ELSE Digits(n \div 10) \o <<n % 10>>

\* the string representation of a field of a record
StringOf(record, field) ==
    IF numeric /\ field \in NumberFields
    THEN Digits(record[field].num)
    ELSE record[field]

\* the records are in lexicographic order of the strings of the field
OrderedAsStrings(results, sortBy, sortOrder) ==
    \A i, j \in 1..Len(results) :
        i < j =>
            IF sortOrder = "asc"
            THEN LocaleCompare(StringOf(results[i], sortBy),
                               StringOf(results[j], sortBy)) <= 0
            ELSE LocaleCompare(StringOf(results[i], sortBy),
                               StringOf(results[j], sortBy)) >= 0

\* a /people request with valid parameters whose collection holds records only
SortsRecords(s) ==
    /\ Done(s) /\ Accepted(s) /\ req[s].endpoint = "people"
    /\ IF req[s].pageCalls = 0
       THEN req[s].cached.def
       ELSE AllPagesOk(req[s])
    /\ \A k \in 1..Len(SortedFrom(req[s])) : SortedFrom(req[s])[k] # UndefinedItem

\* the part of C18 the code keeps: fields that are strings
C18_StringFieldsSorted ==
    \A s \in Slots :
        (SortsRecords(s) /\ SortByOf(req[s].query) \notin NumberFields) =>
            /\ req[s].status = 200
            /\ OrderedAsStrings(req[s].body.results, SortByOf(req[s].query),
                                 SortOrderOf(req[s].query))

\* C18: whatever the type of the selected field, string or number, /people
\* answers 200 with the records in lexicographic order of the field's string
\* representation ("9" after "80" ascending), reversed for desc.
C18_SortsByStringRepresentation ==
    \A s \in Slots :
        SortsRecords(s) =>
            /\ req[s].status = 200
            /\ OrderedAsStrings(req[s].body.results, SortByOf(req[s].query),
                                 SortOrderOf(req[s].query))

\* the request in slot s has been accepted and not answered yet
InFlight(s) == req[s].pc \notin {"idle", "done"}

\* C19: a request has no response while it is in flight and exactly one,
\* with a status, once it is done; and when every upstream call it issues
\* is answered, a request in flight is answered in the end.
C19_AnsweredOnceEventually ==
    /\ [](\A s \in {1} :
            /\ InFlight(s) => req[s].status = 0
            /\ Done(s) => req[s].status \in {200, 400, 500})
    /\ \A s \in {1} : InFlight(s) ~> Done(s)

\* a /planets request answered after three page requests and three lookups
C19_Witness ==
    /\ Done(1) /\ req[1].endpoint = "planets"
    /\ req[1].pageCalls = 3 /\ req[1].lookCalls = 3
    /\ req[1].status = 200

\* a request whose handler threw is answered too, with 500
C19_WitnessFailed ==
    /\ Done(1) /\ req[1].threw # "none" /\ req[1].status = 500

\* the key an endpoint has nothing to do with
OtherKey(endpoint) == IF endpoint = "people" THEN "PLANETS" ELSE "PEOPLE"

\* no step of a request touches the entry of the other endpoint
OtherKeyUntouched ==
    \A s \in Slots :
        req'[s] # req[s] =>
            myCache'[OtherKey(req'[s].endpoint)] = myCache[OtherKey(req'[s].endpoint)]

\* the part of C20 the code keeps: the two keys are independent
C20_KeysIndependent == [][OtherKeyUntouched]_vars

\* C20: a request never touches the entry of the other endpoint, and a
\* request that ends in a server error has written nothing to the cache:
\* it has not stored, and the step that answers 500 leaves both entries as
\* they are.
C20_ErrorLeavesCache ==
    [][ /\ OtherKeyUntouched
        /\ \A s \in Slots :
              (req'[s] # req[s] /\ req'[s].status = 500) =>
                  /\ ~req'[s].stored
                  /\ myCache' = myCache ]_vars

====
